---- MODULE Spec2Model ----
(***************************************************************************)
(* Model of the burn engine of GTK-USB-FLASH (src/burn_engine.rs).         *)
(*                                                                         *)
(* Threads: the caller (UI thread calling start()/cancel()), the           *)
(* Supervisor thread spawned by BurnEngine::new (it runs run_burn and      *)
(* verify_image on its own stack), one Reader thread per operation, and    *)
(* the event consumer.  Files are sequences of bytes; every fallible       *)
(* system call (metadata, open, read, write, sync) takes each outcome the  *)
(* operating system can produce.  speed_mbps is a float computed from the  *)
(* wall clock and is left out of the Progress event; the 100 ms throttle   *)
(* is a free choice of the Writer step.                                    *)
(*                                                                         *)
(* The chunk size (8 MiB) and the event channel capacity (32) are scaled   *)
(* down; the command and data channel capacities are the program's.  A     *)
(* send on a bounded channel is an action that is enabled only while the   *)
(* channel has room.  log, flushed, joined and cancelInCopy record the     *)
(* history of the running operation and are cleared when run_burn returns. *)
(***************************************************************************)
EXTENDS Integers, Sequences, FiniteSets, TLC

(* ---- bounds of the model ---- *)
\* number of start() calls the caller makes (cancel() is not bounded)
MaxStarts == 2
\* length of the source image in bytes
MaxSrcLen == 2
\* chunk size, scaled down from 8 MiB to a few bytes
BUFFER_SIZE == 2

\* capacity of the event channel, scaled down from 32
EVENT_CAP == 1

(* ---- program constants ---- *)
CHANNEL_DEPTH == 4
CMD_CAP == 2

VARIABLES
    src,          \* bytes of the source image (iso_path)
    dev,          \* bytes of the destination (device_path)
    callerPc,     \* "idle", or "send" while blocked inside cmd_tx.send
    callerCmd,    \* the command the blocked send carries (<<>> if none)
    nStarts,      \* start() calls made so far
    cmdq,         \* command channel, bounded(2)
    cancel_flag,  \* the AtomicBool of the Supervisor thread
    svPc,         \* position of the Supervisor thread
    curOp,        \* number of Start commands dequeued so far
    cfg,          \* BurnConfig of the current operation: [verify]
    pend,         \* event the Supervisor is sending (<<>> if none)
    log,          \* events the running operation has sent, in order
    evq,          \* number of events the event channel holds, bounded(32)
    dataq,        \* data channel of the current operation, bounded(4)
    rd,           \* Reader threads, one per operation: [pc, pos, buf]
    wrChunk,      \* chunk the Writer took from the data channel
    total_size,   \* run_burn: total_size
    written,      \* run_burn: written
    vTotal,       \* verify_image: total
    checked,      \* verify_image: checked
    flushed,      \* device.sync_all() returned Ok in the running operation
    joined,       \* reader.join() returned in the running operation
    cancelInCopy  \* cancel() was called during the current copy phase

vars == <<src, dev, callerPc, callerCmd, nStarts, cmdq, cancel_flag, svPc,
          curOp, cfg, pend, log, evq, dataq, rd, wrChunk, total_size,
          written, vTotal, checked, flushed, joined, cancelInCopy>>

callerVars == <<callerPc, callerCmd, nStarts, cmdq>>
burnVars == <<dataq, wrChunk, total_size, written>>
verifyVars == <<vTotal, checked>>
ghostVars == <<flushed, joined>>

Ops == 1..MaxStarts
Min(a, b) == IF a < b THEN a ELSE b
Max(a, b) == IF a > b THEN a ELSE b

(* ---- BurnCommand, BurnEvent ---- *)
StartCmd(v) == [type |-> "Start", verify |-> v]
CancelCmd == [type |-> "Cancel", verify |-> FALSE]

Ev(op, kind, n, total, msg) ==
    [op |-> op, kind |-> kind, n |-> n, total |-> total, msg |-> msg]
Preparing(op) == Ev(op, "Preparing", 0, 0, "")
Progress(op, w, t) == Ev(op, "Progress", w, t, "")
Verifying(op, c, t) == Ev(op, "Verifying", c, t, "")
Finished(op) == Ev(op, "Finished", 0, 0, "")
Cancelled(op) == Ev(op, "Cancelled", 0, 0, "")
Error(op, msg) == Ev(op, "Error", 0, 0, msg)
\* Error(e.to_string()) of a failed system call: the message is modelled by
\* the call that failed
IoError(op, call) == Error(op, call)
VerificationFailed(op) == Error(op, "Verification failed")

TerminalKinds == {"Finished", "Cancelled", "Error"}
IsTerminal(e) == e.kind \in TerminalKinds

(* ---- files ---- *)
\* bytes [from+1 .. from+n] of a file
Bytes(f, from, n) == SubSeq(f, from + 1, from + n)

\* the file after writing bytes at offset off (a write past the end grows it)
WriteAt(f, off, bytes) ==
    [i \in 1..Max(Len(f), off + Len(bytes)) |->
        IF i > off /\ i <= off + Len(bytes) THEN bytes[i - off] ELSE f[i]]

\* what Read::read may return at position pos into a buffer of cap bytes:
\* 0 exactly at end of file, else any count from 1 up to what is there
ReadCounts(f, pos, cap) ==
    IF pos >= Len(f) \/ cap = 0 THEN {0} ELSE 1..Min(cap, Len(f) - pos)

SrcImages == {[i \in 1..n |-> i] : n \in 0..MaxSrcLen}
\* the destination before the first operation: zeroes, one byte shorter than
\* the longest source (a file destination grows when written past its end)
DevImages == {[i \in 1..(MaxSrcLen - 1) |-> 0]}

\* no operation is running: no BurnConfig is held
NoConfig == [verify |-> FALSE]
NoReader == [pc |-> "none", pos |-> 0, buf |-> <<>>]
\* a Reader thread that has returned: its locals and data_tx are dropped
ReaderDone == [pc |-> "done", pos |-> 0, buf |-> <<>>]

Init ==
    /\ src \in SrcImages
    /\ dev \in DevImages
    /\ callerPc = "idle"
    /\ callerCmd = <<>>
    /\ nStarts = 0
    /\ cmdq = <<>>
    /\ cancel_flag = FALSE
    /\ svPc = "recv"
    /\ curOp = 0
    /\ cfg = NoConfig
    /\ pend = <<>>
    /\ log = <<>>
    /\ evq = 0
    /\ dataq = <<>>
    /\ rd = [o \in Ops |-> NoReader]
    /\ wrChunk = <<>>
    /\ total_size = 0
    /\ written = 0
    /\ vTotal = 0
    /\ checked = 0
    /\ flushed = FALSE
    /\ joined = FALSE
    /\ cancelInCopy = FALSE

(* ---- BurnEngine::start / BurnEngine::cancel ---- *)
\* cmd_tx.send(cmd) on a bounded channel: delivers when there is room,
\* otherwise the calling thread blocks until there is
CmdSend(cmd) ==
    IF Len(cmdq) < CMD_CAP
    THEN /\ cmdq' = Append(cmdq, cmd)
         /\ callerPc' = "idle"
         /\ callerCmd' = <<>>
    ELSE /\ cmdq' = cmdq
         /\ callerPc' = "send"
         /\ callerCmd' = <<cmd>>

InCopyPhase == svPc \in {"copy", "write"} /\ written < total_size

start ==
    /\ callerPc = "idle"
    /\ nStarts < MaxStarts
    /\ nStarts' = nStarts + 1
    /\ \E v \in BOOLEAN : CmdSend(StartCmd(v))
    /\ UNCHANGED <<src, dev, cancel_flag, svPc, curOp, cfg, pend, log, evq,
                   rd, burnVars, verifyVars, ghostVars, cancelInCopy>>

cancel ==
    /\ callerPc = "idle"
    /\ nStarts' = nStarts
    /\ CmdSend(CancelCmd)
    /\ cancelInCopy' = (cancelInCopy \/ InCopyPhase)
    /\ UNCHANGED <<src, dev, cancel_flag, svPc, curOp, cfg, pend, log, evq,
                   rd, burnVars, verifyVars, ghostVars>>

\* the blocked send of start()/cancel() completes once the queue has room
SendUnblock ==
    /\ callerPc = "send"
    /\ Len(cmdq) < CMD_CAP
    /\ cmdq' = Append(cmdq, callerCmd[1])
    /\ callerPc' = "idle"
    /\ callerCmd' = <<>>
    /\ UNCHANGED <<src, dev, nStarts, cancel_flag, svPc, curOp, cfg, pend, log,
                   evq, rd, burnVars, verifyVars, ghostVars, cancelInCopy>>

(* ---- Supervisor loop of BurnEngine::new ---- *)
\* (variant for C4: the store on Start is missing)
FlagNotReset == cancel_flag

\* cancel_flag.store(false) on Start
FlagOnStart == FALSE

\* (variant for C9: run_burn does not send Preparing)
RecvStartNoPreparing ==
    /\ svPc = "recv"
    /\ pend = <<>>
    /\ cmdq # <<>>
    /\ Head(cmdq).type = "Start"
    /\ cmdq' = Tail(cmdq)
    /\ cancel_flag' = FlagOnStart
    /\ curOp' = curOp + 1
    /\ cfg' = [verify |-> Head(cmdq).verify]
    /\ pend' = <<>>
    /\ svPc' = "setup"
    /\ UNCHANGED <<src, dev, callerPc, callerCmd, nStarts, log, evq, rd,
                   burnVars, verifyVars, ghostVars, cancelInCopy>>

RecvStart ==
    /\ svPc = "recv"
    /\ pend = <<>>
    /\ cmdq # <<>>
    /\ Head(cmdq).type = "Start"
    /\ cmdq' = Tail(cmdq)
    /\ cancel_flag' = FlagOnStart
    /\ curOp' = curOp + 1
    /\ cfg' = [verify |-> Head(cmdq).verify]
    /\ pend' = <<Preparing(curOp + 1)>>
    /\ svPc' = "setup"
    /\ UNCHANGED <<src, dev, callerPc, callerCmd, nStarts, log, evq, rd,
                   burnVars, verifyVars, ghostVars, cancelInCopy>>

\* (variant for C10: Cancel is taken from the queue while run_burn runs)
RecvCancelAnytime ==
    /\ pend = <<>>
    /\ cmdq # <<>>
    /\ Head(cmdq).type = "Cancel"
    /\ cmdq' = Tail(cmdq)
    /\ cancel_flag' = TRUE
    /\ UNCHANGED <<src, dev, callerPc, callerCmd, nStarts, svPc, curOp, cfg,
                   pend, log, evq, rd, burnVars, verifyVars, ghostVars,
                   cancelInCopy>>

\* (variant for C19: the Writer loop polls the command queue between chunks)
RecvCancelInCopy ==
    /\ svPc \in {"recv", "copy"}
    /\ pend = <<>>
    /\ cmdq # <<>>
    /\ Head(cmdq).type = "Cancel"
    /\ cmdq' = Tail(cmdq)
    /\ cancel_flag' = TRUE
    /\ UNCHANGED <<src, dev, callerPc, callerCmd, nStarts, svPc, curOp, cfg,
                   pend, log, evq, rd, burnVars, verifyVars, ghostVars,
                   cancelInCopy>>

RecvCancel ==
    /\ svPc = "recv"
    /\ pend = <<>>
    /\ cmdq # <<>>
    /\ Head(cmdq).type = "Cancel"
    /\ cmdq' = Tail(cmdq)
    /\ cancel_flag' = TRUE
    /\ UNCHANGED <<src, dev, callerPc, callerCmd, nStarts, svPc, curOp, cfg,
                   pend, log, evq, rd, burnVars, verifyVars, ghostVars,
                   cancelInCopy>>

\* event_tx.send(ev) on the bounded event channel: blocks while the channel
\* is full.  After a terminal event run_burn returns, which drops data_rx
\* with what the channel holds, and its locals
Emit ==
    /\ pend # <<>>
    /\ evq < EVENT_CAP
    /\ evq' = evq + 1
    /\ pend' = <<>>
    /\ IF svPc = "ret"
       THEN /\ svPc' = "recv"
            /\ log' = <<>>
            /\ cfg' = NoConfig
            /\ dataq' = <<>>
            /\ wrChunk' = <<>>
            /\ total_size' = 0
            /\ written' = 0
            /\ vTotal' = 0
            /\ checked' = 0
            /\ flushed' = FALSE
            /\ joined' = FALSE
            /\ cancelInCopy' = FALSE
       ELSE /\ log' = Append(log, pend[1])
            /\ UNCHANGED <<svPc, cfg, burnVars, verifyVars, ghostVars,
                           cancelInCopy>>
    /\ UNCHANGED <<src, dev, callerVars, cancel_flag, curOp, rd>>

\* the consumer of event_rx: event_rx.recv()
Consume ==
    /\ evq > 0
    /\ evq' = evq - 1
    /\ UNCHANGED <<src, dev, callerVars, cancel_flag, svPc, curOp, cfg, pend,
                   log, rd, burnVars, verifyVars, ghostVars, cancelInCopy>>

(* ---- run_burn: setup ---- *)
\* outcomes of metadata(iso_path), File::open(iso_path) and
\* OpenOptions::new().write(true).open(device_path)
SetupOutcomes == {"ok", "metadata_err", "open_iso_err", "open_dev_err"}

\* whether the Reader thread is spawned for this setup outcome
SpawnsReader(outcome) == outcome = "ok"

\* (variant for C8: the Reader is spawned before the opens are checked)
SetupSpawnsEarly ==
    /\ svPc = "setup"
    /\ pend = <<>>
    /\ \E outcome \in SetupOutcomes :
        /\ total_size' = Len(src)
        /\ rd' = [rd EXCEPT ![curOp] = [pc |-> "top", pos |-> 0, buf |-> <<>>]]
        /\ dataq' = <<>>
        /\ written' = 0
        /\ wrChunk' = <<>>
        /\ IF SpawnsReader(outcome)
           THEN svPc' = "copy" /\ pend' = <<>>
           ELSE svPc' = "ret" /\ pend' = <<IoError(curOp, outcome)>>
    /\ UNCHANGED <<src, dev, callerVars, cancel_flag, curOp, cfg, log, evq,
                   verifyVars, ghostVars, cancelInCopy>>

Setup ==
    /\ svPc = "setup"
    /\ pend = <<>>
    /\ \E outcome \in SetupOutcomes :
        IF SpawnsReader(outcome)
        THEN /\ total_size' = Len(src)
             /\ rd' = [rd EXCEPT ![curOp] = [pc |-> "top", pos |-> 0, buf |-> <<>>]]
             /\ dataq' = <<>>
             /\ written' = 0
             /\ wrChunk' = <<>>
             /\ svPc' = "copy"
             /\ pend' = <<>>
        ELSE /\ pend' = <<IoError(curOp, outcome)>>
             /\ svPc' = "ret"
             /\ UNCHANGED <<rd, burnVars>>
    /\ UNCHANGED <<src, dev, callerVars, cancel_flag, curOp, cfg, log, evq,
                   verifyVars, ghostVars, cancelInCopy>>

(* ---- run_burn: Reader thread of operation o ---- *)
\* data_rx of operation o is alive until that run_burn returns
DataRxAlive(o) == o = curOp /\ svPc # "recv"

\* (variant for C16: the Reader reports its read error as an event)
ReaderReadReports(o) ==
    /\ rd[o].pc = "top"
    /\ IF cancel_flag
       THEN rd' = [rd EXCEPT ![o] = ReaderDone] /\ pend' = pend
       ELSE \E n \in {-1} \cup ReadCounts(src, rd[o].pos, BUFFER_SIZE) :
              IF n <= 0
              THEN /\ rd' = [rd EXCEPT ![o] = ReaderDone]
                   /\ pend' = IF n = -1 /\ pend = <<>>
                              THEN <<IoError(o, "read_err")>> ELSE pend
              ELSE /\ rd' = [rd EXCEPT ![o] = [pc |-> "send", pos |-> @.pos + n,
                                               buf |-> Bytes(src, @.pos, n)]]
                   /\ pend' = pend
    /\ UNCHANGED <<src, dev, callerVars, cancel_flag, svPc, curOp, cfg, log,
                   evq, burnVars, verifyVars, ghostVars, cancelInCopy>>

\* top of the loop: load the flag, allocate, iso.read(&mut buffer), truncate
ReaderRead(o) ==
    /\ rd[o].pc = "top"
    /\ IF cancel_flag
       THEN rd' = [rd EXCEPT ![o] = ReaderDone]
       ELSE \E n \in {-1} \cup ReadCounts(src, rd[o].pos, BUFFER_SIZE) :
              IF n <= 0
              THEN rd' = [rd EXCEPT ![o] = ReaderDone]
              ELSE rd' = [rd EXCEPT ![o] = [pc |-> "send", pos |-> @.pos + n,
                                            buf |-> Bytes(src, @.pos, n)]]
    /\ UNCHANGED <<src, dev, callerVars, cancel_flag, svPc, curOp, cfg, pend, log,
                   evq, burnVars, verifyVars, ghostVars, cancelInCopy>>

\* (variant for C18: a send whose receiver is dropped keeps waiting)
ReaderSendNoDisconnect(o) ==
    /\ rd[o].pc = "send"
    /\ DataRxAlive(o)
    /\ Len(dataq) < CHANNEL_DEPTH
    /\ dataq' = Append(dataq, rd[o].buf)
    /\ rd' = [rd EXCEPT ![o] = [pc |-> "top", pos |-> @.pos, buf |-> <<>>]]
    /\ UNCHANGED <<src, dev, callerVars, cancel_flag, svPc, curOp, cfg, pend, log,
                   evq, wrChunk, total_size, written, verifyVars, ghostVars,
                   cancelInCopy>>

\* (variant for C12: the data channel is unbounded)
ReaderSendUnbounded(o) ==
    /\ rd[o].pc = "send"
    /\ IF ~DataRxAlive(o)
       THEN /\ rd' = [rd EXCEPT ![o] = ReaderDone]
            /\ dataq' = dataq
       ELSE /\ dataq' = Append(dataq, rd[o].buf)
            /\ rd' = [rd EXCEPT ![o] = [pc |-> "top", pos |-> @.pos, buf |-> <<>>]]
    /\ UNCHANGED <<src, dev, callerVars, cancel_flag, svPc, curOp, cfg, pend, log,
                   evq, wrChunk, total_size, written, verifyVars, ghostVars,
                   cancelInCopy>>

\* data_tx.send(buffer): blocks while the channel is full, fails once data_rx
\* is dropped
ReaderSend(o) ==
    /\ rd[o].pc = "send"
    /\ IF ~DataRxAlive(o)
       THEN /\ rd' = [rd EXCEPT ![o] = ReaderDone]
            /\ dataq' = dataq
       ELSE /\ Len(dataq) < CHANNEL_DEPTH
            /\ dataq' = Append(dataq, rd[o].buf)
            /\ rd' = [rd EXCEPT ![o] = [pc |-> "top", pos |-> @.pos, buf |-> <<>>]]
    /\ UNCHANGED <<src, dev, callerVars, cancel_flag, svPc, curOp, cfg, pend, log,
                   evq, wrChunk, total_size, written, verifyVars, ghostVars,
                   cancelInCopy>>

(* ---- run_burn: Writer loop, join, flush ---- *)
\* (variant for C17: the Writer takes the newest chunk of the channel)
WriterRecvNewest ==
    /\ svPc = "copy"
    /\ pend = <<>>
    /\ IF dataq # <<>>
       THEN /\ wrChunk' = dataq[Len(dataq)]
            /\ dataq' = SubSeq(dataq, 1, Len(dataq) - 1)
            /\ svPc' = "write"
       ELSE /\ rd[curOp].pc = "done"
            /\ svPc' = "join"
            /\ UNCHANGED <<wrChunk, dataq>>
    /\ UNCHANGED <<src, dev, callerVars, cancel_flag, curOp, cfg, pend, log,
                   evq, rd, total_size, written, verifyVars, ghostVars,
                   cancelInCopy>>

\* for chunk in data_rx: the next chunk, or the end of the loop once the
\* channel is empty and the Reader has dropped data_tx
WriterRecv ==
    /\ svPc = "copy"
    /\ pend = <<>>
    /\ IF dataq # <<>>
       THEN /\ wrChunk' = Head(dataq)
            /\ dataq' = Tail(dataq)
            /\ svPc' = "write"
       ELSE /\ rd[curOp].pc = "done"
            /\ svPc' = "join"
            /\ UNCHANGED <<wrChunk, dataq>>
    /\ UNCHANGED <<src, dev, callerVars, cancel_flag, curOp, cfg, pend, log,
                   evq, rd, total_size, written, verifyVars, ghostVars,
                   cancelInCopy>>

\* (variant for C7: the buffer size is counted, not the bytes read)
WrittenByBuffer(w, chunk) == w + BUFFER_SIZE

\* written += chunk.len()
WrittenAfter(w, chunk) == w + Len(chunk)

\* (variant for C15: the return after a failed write_all is missing)
WriterWriteGoesOn ==
    /\ svPc = "write"
    /\ pend = <<>>
    /\ IF cancel_flag
       THEN /\ pend' = <<Cancelled(curOp)>>
            /\ svPc' = "ret"
            /\ UNCHANGED <<dev, written>>
       ELSE \/ /\ dev' = WriteAt(dev, written, wrChunk)
               /\ written' = WrittenAfter(written, wrChunk)
               /\ \E due \in BOOLEAN :
                    pend' = IF due
                            THEN <<Progress(curOp, written', total_size)>>
                            ELSE <<>>
               /\ svPc' = "copy"
            \/ /\ \E k \in 0..(Len(wrChunk) - 1) :
                    dev' = WriteAt(dev, written, SubSeq(wrChunk, 1, k))
               /\ pend' = <<IoError(curOp, "write_err")>>
               /\ svPc' = "copy"
               /\ written' = written
    /\ wrChunk' = <<>>
    /\ UNCHANGED <<src, callerVars, cancel_flag, curOp, cfg, log, evq, rd,
                   dataq, total_size, verifyVars, ghostVars, cancelInCopy>>

\* loop body: the flag check, device.write_all(&chunk), the byte count and
\* the throttled Progress event.  A failing write_all may have written any
\* proper prefix of the chunk
WriterWrite ==
    /\ svPc = "write"
    /\ pend = <<>>
    /\ IF cancel_flag
       THEN /\ pend' = <<Cancelled(curOp)>>
            /\ svPc' = "ret"
            /\ UNCHANGED <<dev, written>>
       ELSE \/ /\ dev' = WriteAt(dev, written, wrChunk)
               /\ written' = WrittenAfter(written, wrChunk)
               /\ \E due \in BOOLEAN :
                    pend' = IF due
                            THEN <<Progress(curOp, written', total_size)>>
                            ELSE <<>>
               /\ svPc' = "copy"
            \/ /\ \E k \in 0..(Len(wrChunk) - 1) :
                    dev' = WriteAt(dev, written, SubSeq(wrChunk, 1, k))
               /\ pend' = <<IoError(curOp, "write_err")>>
               /\ svPc' = "ret"
               /\ written' = written
    /\ wrChunk' = <<>>
    /\ UNCHANGED <<src, callerVars, cancel_flag, curOp, cfg, log, evq, rd,
                   dataq, total_size, verifyVars, ghostVars, cancelInCopy>>

\* reader.join()
Join ==
    /\ svPc = "join"
    /\ pend = <<>>
    /\ rd[curOp].pc = "done"
    /\ joined' = TRUE
    /\ svPc' = "sync"
    /\ UNCHANGED <<src, dev, callerVars, cancel_flag, curOp, cfg, pend, log,
                   evq, rd, burnVars, verifyVars, flushed, cancelInCopy>>

\* (variant for C1: the return after a failed flush is missing)
SyncFallsThrough ==
    /\ svPc = "sync"
    /\ pend = <<>>
    /\ \E ok \in BOOLEAN :
        /\ flushed' = (flushed \/ ok)
        /\ svPc' = IF cfg.verify THEN "v_open" ELSE "ret"
        /\ pend' = IF ~ok THEN <<IoError(curOp, "sync_err")>>
                   ELSE IF cfg.verify THEN <<>> ELSE <<Finished(curOp)>>
    /\ UNCHANGED <<src, dev, callerVars, cancel_flag, curOp, cfg, log, evq,
                   rd, burnVars, verifyVars, joined, cancelInCopy>>

\* (variant for C14: verify_image is called whatever cfg.verify says)
SyncAlwaysVerifies ==
    /\ svPc = "sync"
    /\ pend = <<>>
    /\ \E ok \in BOOLEAN :
        IF ok
        THEN /\ flushed' = TRUE
             /\ svPc' = "v_open"
             /\ pend' = <<>>
        ELSE /\ flushed' = flushed
             /\ svPc' = "ret"
             /\ pend' = <<IoError(curOp, "sync_err")>>
    /\ UNCHANGED <<src, dev, callerVars, cancel_flag, curOp, cfg, log, evq,
                   rd, burnVars, verifyVars, joined, cancelInCopy>>

\* device.sync_all(), then the choice between verify_image and Finished
Sync ==
    /\ svPc = "sync"
    /\ pend = <<>>
    /\ \E ok \in BOOLEAN :
        IF ok
        THEN /\ flushed' = TRUE
             /\ IF cfg.verify
                THEN svPc' = "v_open" /\ pend' = <<>>
                ELSE svPc' = "ret" /\ pend' = <<Finished(curOp)>>
        ELSE /\ flushed' = flushed
             /\ svPc' = "ret"
             /\ pend' = <<IoError(curOp, "sync_err")>>
    /\ UNCHANGED <<src, dev, callerVars, cancel_flag, curOp, cfg, log, evq,
                   rd, burnVars, verifyVars, joined, cancelInCopy>>

(* ---- verify_image ---- *)
\* outcomes of File::open(iso_path), File::open(device_path) and
\* metadata(iso_path); a failed metadata gives total = 0 and goes on
VerifyOpenOutcomes == {"ok", "v_open_iso_err", "v_open_dev_err", "metadata_err"}

VerifyOpen ==
    /\ svPc = "v_open"
    /\ pend = <<>>
    /\ \E outcome \in VerifyOpenOutcomes :
        IF outcome \in {"v_open_iso_err", "v_open_dev_err"}
        THEN /\ pend' = <<IoError(curOp, outcome)>>
             /\ svPc' = "ret"
             /\ UNCHANGED verifyVars
        ELSE /\ vTotal' = IF outcome = "ok" THEN Len(src) ELSE 0
             /\ checked' = 0
             /\ svPc' = "v_loop"
             /\ pend' = <<>>
    /\ UNCHANGED <<src, dev, callerVars, cancel_flag, curOp, cfg, log, evq,
                   rd, burnVars, ghostVars, cancelInCopy>>

\* what device.read(&mut buf_dev[..n1]) may return at position pos
DevReadCounts(pos, n1) == ReadCounts(dev, pos, n1)

\* (variant for C5: only the byte counts are compared)
ChunkLengthOnly(pos, n1, n2) == n1 # n2

\* n1 != n2 || buf_iso[..n1] != buf_dev[..n2]
ChunkMismatch(pos, n1, n2) ==
    n1 # n2 \/ Bytes(src, pos, n1) # Bytes(dev, pos, n2)

\* one iteration of the loop: the flag check, both reads, the comparison and
\* the Verifying event; Ok(0) from the source ends the loop and verify_image
\* returns true, after which run_burn sends Finished.  Both files are read
\* from the start in equal counts, so both positions equal checked
VerifyStep ==
    /\ svPc = "v_loop"
    /\ pend = <<>>
    /\ IF cancel_flag
       THEN /\ pend' = <<Cancelled(curOp)>>
            /\ svPc' = "ret"
            /\ checked' = checked
       ELSE \E n1 \in {-1} \cup ReadCounts(src, checked, BUFFER_SIZE) :
              CASE n1 = -1 ->
                     /\ pend' = <<IoError(curOp, "v_read_iso_err")>>
                     /\ svPc' = "ret"
                     /\ checked' = checked
                [] n1 = 0 ->
                     /\ pend' = <<Finished(curOp)>>
                     /\ svPc' = "ret"
                     /\ checked' = checked
                [] OTHER ->
                     \E n2 \in {-1} \cup DevReadCounts(checked, n1) :
                       IF n2 = -1
                       THEN /\ pend' = <<IoError(curOp, "v_read_dev_err")>>
                            /\ svPc' = "ret"
                            /\ checked' = checked
                       ELSE IF ChunkMismatch(checked, n1, n2)
                       THEN /\ pend' = <<VerificationFailed(curOp)>>
                            /\ svPc' = "ret"
                            /\ checked' = checked
                       ELSE /\ checked' = checked + n1
                            /\ pend' = <<Verifying(curOp, checked', vTotal)>>
                            /\ svPc' = "v_loop"
    /\ UNCHANGED <<src, dev, callerVars, cancel_flag, curOp, cfg, log, evq,
                   rd, burnVars, vTotal, ghostVars, cancelInCopy>>

(* ---- the system ---- *)
Next ==
    \/ start
    \/ cancel
    \/ SendUnblock
    \/ RecvStart
    \/ RecvCancel
    \/ Emit
    \/ Consume
    \/ Setup
    \/ \E o \in Ops : ReaderRead(o)
    \/ \E o \in Ops : ReaderSend(o)
    \/ WriterRecv
    \/ WriterWrite
    \/ Join
    \/ Sync
    \/ VerifyOpen
    \/ VerifyStep

Spec == Init /\ [][Next]_vars

(* ---- the copy pipeline on an image longer than the data channel ---- *)
\* a source length, in bytes, with which reads of one byte fill the data
\* channel, the Reader's buffer and the Writer's chunk
PipeSrcLen == CHANNEL_DEPTH + 2

\* the engine before the last start(): the earlier operations failed in
\* their setup (no Reader was started, nothing was written) and their events
\* were received
PipeInit ==
    /\ src = [i \in 1..PipeSrcLen |-> i]
    /\ dev \in DevImages
    /\ callerPc = "idle"
    /\ callerCmd = <<>>
    /\ nStarts = MaxStarts - 1
    /\ cmdq = <<>>
    /\ cancel_flag = FALSE
    /\ svPc = "recv"
    /\ curOp = MaxStarts - 1
    /\ cfg = NoConfig
    /\ pend = <<>>
    /\ log = <<>>
    /\ evq = 0
    /\ dataq = <<>>
    /\ rd = [o \in Ops |-> NoReader]
    /\ wrChunk = <<>>
    /\ total_size = 0
    /\ written = 0
    /\ vTotal = 0
    /\ checked = 0
    /\ flushed = FALSE
    /\ joined = FALSE
    /\ cancelInCopy = FALSE

PipeSpec == PipeInit /\ [][Next]_vars

\* the same engine with a caller that makes its last start() and no
\* cancel(): a Cancel only waits in the command queue while run_burn runs
PipeNext ==
    \/ start
    \/ RecvStart
    \/ Emit
    \/ Consume
    \/ Setup
    \/ \E o \in Ops : ReaderRead(o)
    \/ \E o \in Ops : ReaderSend(o)
    \/ WriterRecv
    \/ WriterWrite
    \/ Join
    \/ Sync
    \/ VerifyOpen
    \/ VerifyStep

\* every thread that can take a step takes it in the end: the file calls of
\* the Supervisor thread and of the Reader threads return, a send or receive
\* that can complete completes, and the consumer keeps receiving events
PipeFairness ==
    /\ WF_vars(RecvStart)
    /\ WF_vars(Emit)
    /\ WF_vars(Consume)
    /\ WF_vars(Setup)
    /\ \A o \in Ops : WF_vars(ReaderRead(o)) /\ WF_vars(ReaderSend(o))
    /\ WF_vars(WriterRecv)
    /\ WF_vars(WriterWrite)
    /\ WF_vars(Join)
    /\ WF_vars(Sync)
    /\ WF_vars(VerifyOpen)
    /\ WF_vars(VerifyStep)

PipeFairSpec == PipeInit /\ [][PipeNext]_vars /\ PipeFairness

(***************************************************************************)
(* Properties                                                              *)
(***************************************************************************)
Last(q) == q[Len(q)]

\* the events of the running operation, the one being sent included
AllEvents == log \o pend

HasKind(q, k) == \E i \in 1..Len(q) : q[i].kind = k

\* the destination differs from the source at an offset below the source
\* length, or is shorter than the source
Differs == \E i \in 1..Len(src) : i > Len(dev) \/ dev[i] # src[i]

SetupErrors == {"metadata_err", "open_iso_err", "open_dev_err"}
VerifyIoErrors == {"v_open_iso_err", "v_open_dev_err", "v_read_iso_err",
                   "v_read_dev_err"}

\* run_burn is about to return: its terminal event is being sent
Returning == svPc = "ret"

(* C1: every dequeued Start yields exactly one terminal event, on every path
   through run_burn and verify_image, and nothing of that operation follows
   it: no terminal event is sent while the operation goes on, a terminal
   event is being sent exactly when run_burn is about to return, run_burn
   returns only by sending it, and nothing is sent while no operation runs. *)
C1_ExactlyOneTerminal ==
    /\ [](/\ \A i \in 1..Len(log) : ~IsTerminal(log[i])
          /\ (Returning <=> (pend # <<>> /\ IsTerminal(pend[1])))
          /\ (svPc = "recv" => pend = <<>> /\ log = <<>>)
          /\ (pend # <<>> => pend[1].op = curOp))
    /\ [][(svPc # "recv" /\ svPc' = "recv")
            => (Returning /\ evq' = evq + 1)]_vars

C1_Witness ==
    /\ Returning
    /\ pend = <<Finished(curOp)>>
    /\ HasKind(log, "Progress")
    /\ HasKind(log, "Verifying")

(* C2: when cancel() is called during the copy phase of an operation (chunks
   still to be written), the flag becomes true during that operation, the
   Writer observes it at its next chunk and the operation ends with
   Cancelled, without any Verifying event.  Stated for the operations that
   no error and no early end of the Reader cut short: an operation that
   wrote the whole image after the call. *)
C2_CancelDuringCopyCancels ==
    (Returning /\ cancelInCopy /\ written = total_size)
        => /\ cancel_flag
           /\ pend[1].kind = "Cancelled"
           /\ ~HasKind(log, "Verifying")

(* C3: start() and cancel() never block the caller: a call made while the
   command queue holds 2 undelivered commands returns at once and its
   command is dropped. *)
C3_CallsNeverBlock == callerPc = "idle" /\ callerCmd = <<>>

(* C4: a Cancel processed while no operation runs produces no event and
   leaves everything but the flag alone, and the next Start resets the flag
   before any stage reads it: the flag is false whenever an operation runs. *)
C4_IdleCancelHasNoEffect ==
    /\ [](svPc # "recv" => ~cancel_flag)
    /\ [][(~cancel_flag /\ cancel_flag')
            => /\ svPc = "recv" /\ svPc' = "recv"
               /\ pend' = <<>> /\ log' = log /\ evq' <= evq
               /\ dev' = dev /\ curOp' = curOp /\ rd' = rd]_vars
    /\ [][(curOp' # curOp)
            => (~cancel_flag' /\ pend' = <<Preparing(curOp')>>)]_vars

\* a Cancel has been processed before any operation and a Start is waiting
C4_Witness ==
    /\ svPc = "recv"
    /\ cancel_flag
    /\ curOp = 0
    /\ evq = 0
    /\ cmdq # <<>>
    /\ Head(cmdq).type = "Start"

(* C5 as claimed: with verify = true and write and flush succeeded, a
   destination that differs from the source makes the terminal event
   Error("Verification failed"). *)
C5_MismatchIsVerificationFailed ==
    (Returning /\ cfg.verify /\ flushed /\ Differs)
        => pend = <<VerificationFailed(curOp)>>

(* C5 as amended: with verify = true and write and flush succeeded, a
   destination that differs from the source makes the terminal event an
   Error, never Finished: Error("Verification failed"), or the Error of an
   open or read of the Verifier that failed before the mismatching chunk was
   compared; and the Verifier stops at the first mismatching chunk, so every
   Verifying event covers bytes that are equal. *)
C5_MismatchIsError ==
    /\ (Returning /\ cfg.verify /\ flushed /\ Differs)
         => /\ pend[1].kind = "Error"
            /\ pend[1].msg \in {"Verification failed"} \cup VerifyIoErrors
    /\ \A i \in 1..Len(AllEvents) :
         AllEvents[i].kind = "Verifying"
            => /\ AllEvents[i].n <= Len(dev)
               /\ \A b \in 1..AllEvents[i].n : dev[b] = src[b]

C5_Witness ==
    /\ Returning
    /\ cfg.verify
    /\ flushed
    /\ Differs
    /\ pend = <<VerificationFailed(curOp)>>
    /\ HasKind(log, "Verifying")

(* C6: with verify = true, the destination holding the source's bytes as a
   prefix after the flush, and no I/O error in the Verifier, the operation
   ends with Finished and never with Error, however the destination read
   returns. *)
C6_IdenticalIsFinished ==
    (Returning /\ cfg.verify /\ flushed /\ ~Differs
        /\ pend[1].msg \notin VerifyIoErrors)
        => pend = <<Finished(curOp)>>

(* C7: within one operation the written field of successive Progress events
   never decreases, and every Progress event has written <= total, total
   being the source size. *)
C7_ProgressMonotone ==
    /\ \A i \in 1..Len(AllEvents) :
         AllEvents[i].kind = "Progress"
            => /\ AllEvents[i].n <= AllEvents[i].total
               /\ AllEvents[i].total = Len(src)
    /\ \A i, j \in 1..Len(AllEvents) :
         (i < j /\ AllEvents[i].kind = "Progress"
                /\ AllEvents[j].kind = "Progress")
            => AllEvents[i].n <= AllEvents[j].n

C7_Witness ==
    \E i, j \in 1..Len(log) :
        /\ i < j
        /\ log[i].kind = "Progress"
        /\ log[j].kind = "Progress"
        /\ log[i].n < log[j].n
        /\ log[j].n = log[j].total

\* the operation failed in its setup and is sending that Error
SetupFailed ==
    /\ Returning
    /\ pend[1].kind = "Error"
    /\ pend[1].msg \in SetupErrors

(* C8: when the source metadata cannot be read or the source or destination
   cannot be opened, the events are exactly Preparing then Error, no Reader
   is started, nothing is queued for the Writer and the destination is not
   written during the setup nor while the Error is sent. *)
C8_SetupErrorStopsEarly ==
    /\ [](SetupFailed
            => /\ log = <<Preparing(curOp)>>
               /\ rd[curOp].pc = "none"
               /\ dataq = <<>>
               /\ written = 0)
    /\ [][(svPc = "setup" \/ SetupFailed) => dev' = dev]_vars

C8_Witness ==
    /\ SetupFailed
    /\ pend = <<IoError(curOp, "open_dev_err")>>
    /\ log = <<Preparing(curOp)>>

(* C9: an operation's first event is Preparing, its Progress events all
   precede its Verifying events, both precede its terminal event, and the
   next operation's Preparing is sent only after this operation's terminal
   event was sent. *)
C9_EventOrder ==
    /\ [](/\ AllEvents # <<>> => AllEvents[1] = Preparing(curOp)
          /\ \A i \in 2..Len(AllEvents) : AllEvents[i].kind # "Preparing"
          /\ \A i, j \in 1..Len(AllEvents) :
               (i < j) => /\ ~(AllEvents[i].kind = "Verifying"
                                /\ AllEvents[j].kind = "Progress")
                          /\ ~IsTerminal(AllEvents[i])
          /\ \A i \in 1..Len(AllEvents) : AllEvents[i].op = curOp)
    /\ [][(curOp' # curOp)
            => /\ svPc = "recv" /\ pend = <<>> /\ log = <<>>
               /\ pend' = <<Preparing(curOp + 1)>>]_vars
    /\ [][(svPc # "recv" /\ svPc' = "recv")
            => (IsTerminal(pend[1]) /\ evq' = evq + 1)]_vars

\* the second operation is about to end after Progress and Verifying events
C9_Witness ==
    /\ curOp = 2
    /\ Returning
    /\ IsTerminal(pend[1])
    /\ HasKind(log, "Progress")
    /\ HasKind(log, "Verifying")

(* C10: at most one operation is in flight: the Supervisor takes a command
   from the queue only while no run_burn execution is active, operations
   start one after the other, and the destination is written only by the
   Writer of the one running operation. *)
C10_OneOperationInFlight ==
    /\ [][(Len(cmdq') < Len(cmdq))
            => (svPc = "recv" /\ pend = <<>> /\ dataq = <<>>
                /\ wrChunk = <<>>)]_vars
    /\ [][(curOp' # curOp) => (curOp' = curOp + 1 /\ svPc = "recv")]_vars
    /\ [][(dev' # dev) => (svPc = "write" /\ svPc' \in {"copy", "ret"})]_vars

\* a Start and a Cancel wait in the queue while the Writer is writing
C10_Witness ==
    /\ svPc = "write"
    /\ Len(cmdq) = CMD_CAP
    /\ \E i \in 1..Len(cmdq) : cmdq[i].type = "Start"
    /\ \E i \in 1..Len(cmdq) : cmdq[i].type = "Cancel"

(* C11: an event send never stalls the operation, whether or not anybody
   receives from the event channel: whenever the Supervisor thread is
   sending an event, the event channel has room for it, so the send
   completes without a receive by the consumer. *)
C11_SendNeverStalls == pend # <<>> => evq < EVENT_CAP

\* chunk buffers of the running operation: those in the data channel, the one
\* its Reader filled and is sending, and the one its Writer is writing
ChunksInFlight ==
    Len(dataq) + (IF curOp \in Ops /\ rd[curOp].pc = "send" THEN 1 ELSE 0)
               + (IF wrChunk # <<>> THEN 1 ELSE 0)

(* C12 as claimed: during the copy phase the number of chunks the Reader has
   allocated and the Writer has not yet finished writing is at most the
   channel depth, 4. *)
C12_AtMostChannelDepth == ChunksInFlight <= CHANNEL_DEPTH

(* C12 as amended: the data channel never holds more than 4 chunks, every
   chunk is at most one buffer long, and the number of chunks the Reader has
   allocated and the Writer has not yet finished writing is at most
   channel depth + 2: the queued ones, the one the Reader holds while it is
   blocked in send, and the one the Writer is writing. *)
C12_ChunksBounded ==
    /\ Len(dataq) <= CHANNEL_DEPTH
    /\ ChunksInFlight <= CHANNEL_DEPTH + 2
    /\ \A i \in 1..Len(dataq) : Len(dataq[i]) \in 1..BUFFER_SIZE
    /\ Len(wrChunk) <= BUFFER_SIZE
    /\ \A o \in Ops : Len(rd[o].buf) <= BUFFER_SIZE

\* the channel is full, the Reader is blocked in send with one more chunk
\* and the Writer is writing another
C12_Witness ==
    /\ svPc = "write"
    /\ Len(dataq) = CHANNEL_DEPTH
    /\ rd[curOp].pc = "send"
    /\ wrChunk # <<>>
    /\ ChunksInFlight = CHANNEL_DEPTH + 2

(* C13: on every terminal path of an operation the Reader thread of that
   operation has returned before the terminal event is sent, and so before
   the Supervisor takes the next command: while a terminal event is being
   sent, and while the Supervisor waits for a command, no Reader thread is
   running. *)
C13_ReaderReturnedAtTerminal ==
    /\ Returning => rd[curOp].pc \in {"none", "done"}
    /\ svPc = "recv" => \A o \in Ops : rd[o].pc \in {"none", "done"}

\* the Verifier is running
InVerifier == svPc \in {"v_open", "v_loop"}

(* C14: the steps after copying are ordered.  The flush starts only after
   the data channel is closed and empty and the Reader has been joined; the
   Verifier runs, and Verifying events exist, only with verify = true and
   after the flush succeeded; Finished is sent only after the flush
   succeeded and, with verify = true, after the Verifier compared the whole
   source and found it equal; with verify = false no Verifying event is
   sent. *)
C14_StepsOrdered ==
    /\ (svPc = "sync" \/ flushed)
         => (joined /\ dataq = <<>> /\ wrChunk = <<>>
             /\ rd[curOp].pc = "done")
    /\ joined => svPc \notin {"setup", "copy", "write", "join"}
    /\ (InVerifier \/ HasKind(AllEvents, "Verifying"))
         => (cfg.verify /\ flushed)
    /\ HasKind(AllEvents, "Finished")
         => /\ flushed
            /\ cfg.verify => (checked = Len(src) /\ ~Differs)
    /\ ~cfg.verify => ~HasKind(AllEvents, "Verifying")

\* Finished is being sent after join, flush and a Verifier that sent events
C14_Witness ==
    /\ pend = <<Finished(curOp)>>
    /\ cfg.verify
    /\ joined
    /\ flushed
    /\ checked = MaxSrcLen
    /\ Last(log).kind = "Verifying"

WriteErrors == {"write_err", "sync_err"}

\* the Error of a failed write_all or sync_all has been sent or is being sent
WriteFailed == \E i \in 1..Len(AllEvents) : AllEvents[i].msg \in WriteErrors

(* C15: when a destination write or the flush fails, the operation's
   terminal event is that Error: it is sent as the operation's last event
   while run_burn returns, the operation has no Verifying and no Finished
   event whatever verify says, the Verifier does not run, and after a failed
   write the Reader is not joined and the flush is not called. *)
C15_WriteErrorAborts ==
    /\ \A i \in 1..Len(log) : log[i].msg \notin WriteErrors
    /\ WriteFailed
         => /\ Returning
            /\ pend[1].kind = "Error"
            /\ ~HasKind(AllEvents, "Verifying")
            /\ ~HasKind(AllEvents, "Finished")
            /\ ~flushed
            /\ vTotal = 0 /\ checked = 0
    /\ (WriteFailed /\ pend[1].msg = "write_err") => ~joined

\* the second chunk's write failed in an operation with verify = true
C15_Witness ==
    /\ Returning
    /\ cfg.verify
    /\ pend = <<IoError(curOp, "write_err")>>
    /\ written > 0
    /\ HasKind(log, "Progress")

RECURSIVE SumLen(_)
SumLen(q) == IF q = <<>> THEN 0 ELSE Len(Head(q)) + SumLen(Tail(q))

\* the Reader of the running operation returned before the end of the
\* source: fewer bytes than the source has were handed to the Writer
ReaderStoppedEarly ==
    /\ curOp \in Ops
    /\ rd[curOp].pc = "done"
    /\ \/ /\ svPc \in {"copy", "write", "join"}
          /\ written + Len(wrChunk) + SumLen(dataq) < total_size
       \/ joined /\ written < total_size

(* C16: a read error in the Reader produces no event of its own.  The step
   in which a Reader stops before the end of the source sends nothing and
   leaves the Supervisor thread and the queued chunks alone; afterwards the
   queued chunks leave the channel only into the Writer, the Writer reaches
   join with the channel drained, and the operation ends with one terminal
   event, which the later steps decide: the Error of a failed flush, or
   after the flush Finished without verification and Finished or an Error of
   the Verifier with it. *)
C16_ReadErrorIsSilent ==
    /\ [][\A o \in Ops :
            (rd[o].pc = "top" /\ rd'[o].pc = "done" /\ rd[o].pos < Len(src))
                => /\ pend' = pend /\ log' = log /\ evq' = evq
                   /\ svPc' = svPc /\ dataq' = dataq /\ wrChunk' = wrChunk
                   /\ dev' = dev]_vars
    /\ [][(ReaderStoppedEarly /\ dataq' # dataq /\ svPc' # "recv")
            => (svPc = "copy" /\ svPc' = "write" /\ wrChunk' = Head(dataq)
                /\ dataq' = Tail(dataq))]_vars
    /\ [](ReaderStoppedEarly
            => /\ \A i \in 1..Len(log) : ~IsTerminal(log[i])
               /\ svPc \in {"join", "sync"} => (dataq = <<>> /\ wrChunk = <<>>)
               /\ (Returning /\ joined /\ ~flushed)
                    => pend = <<IoError(curOp, "sync_err")>>
               /\ (Returning /\ flushed /\ ~cfg.verify)
                    => pend = <<Finished(curOp)>>
               /\ (Returning /\ flushed /\ cfg.verify)
                    => \/ pend = <<Finished(curOp)>>
                       \/ /\ pend[1].kind = "Error"
                          /\ pend[1].msg \in
                               {"Verification failed"} \cup VerifyIoErrors)

\* the Reader stopped after the first byte of a longer source, the Writer
\* wrote that byte, joined and flushed, and Finished is being sent
C16_Witness ==
    /\ ReaderStoppedEarly
    /\ Returning
    /\ joined
    /\ flushed
    /\ written > 0
    /\ pend = <<Finished(curOp)>>

RECURSIVE Flatten(_)
Flatten(q) == IF q = <<>> THEN <<>> ELSE Head(q) \o Flatten(Tail(q))

\* the bytes between Reader and Writer, oldest first: the chunk the Writer
\* holds, the chunks in the data channel, the chunk the Reader is sending
InFlight == Flatten(<<wrChunk>> \o dataq \o <<rd[curOp].buf>>)

(* C17 as claimed: at every moment, also after a write error, the bytes
   written to the destination are exactly the first `written` bytes of the
   source: every step that changes the destination writes the next bytes of
   the source at offset `written` and adds their number to `written`. *)
C17_ExactlyWrittenBytes ==
    [][(dev' # dev)
        => /\ written' > written
           /\ dev' = WriteAt(dev, written,
                             Bytes(src, written, written' - written))]_vars

(* C17 as amended: chunks reach the Writer once and in read order: during
   the copy the bytes in flight are the source's bytes from offset `written`
   up to the Reader's position, in order; the first `written` bytes of the
   destination are the first `written` bytes of the source at every moment;
   a step that changes the destination writes source bytes at offset
   `written`, either the whole chunk, counted in `written`, or, when the
   write fails, a proper part of the chunk that is not counted, after which
   the operation ends; and a Reader of an earlier operation puts nothing
   into the data channel of a later one. *)
C17_ChunksInOrder ==
    /\ [](/\ Len(dev) >= written
          /\ Bytes(dev, 0, written) = Bytes(src, 0, written)
          /\ svPc \in {"copy", "write"}
               => /\ InFlight = Bytes(src, written, Len(InFlight))
                  /\ rd[curOp].pc \in {"top", "send"}
                       => written + Len(InFlight) = rd[curOp].pos)
    /\ [][(dev' # dev)
            => /\ svPc = "write"
               /\ \E n \in 1..Len(wrChunk) :
                    /\ dev' = WriteAt(dev, written, Bytes(src, written, n))
                    /\ \/ n = Len(wrChunk) /\ written' = written + n
                       \/ /\ n < Len(wrChunk) /\ written' = written
                          /\ svPc' = "ret"
                          /\ pend' = <<IoError(curOp, "write_err")>>]_vars
    /\ [][(dataq' # dataq /\ Len(dataq') > Len(dataq))
            => /\ rd[curOp].pc = "send"
               /\ dataq' = Append(dataq, rd[curOp].buf)
               /\ \A o \in Ops \ {curOp} : rd'[o] = rd[o]]_vars

\* the second operation's Writer holds the second chunk while the Reader of
\* the first operation is still holding a chunk of its own
C17_Witness ==
    /\ curOp = 2
    /\ rd[1].pc = "send"
    /\ svPc = "write"
    /\ written > 0
    /\ wrChunk = Bytes(src, written, Len(src) - written)

(* C18: with a consumer that keeps receiving and file calls that return,
   every operation the Supervisor has started sends its terminal event and
   the Supervisor waits for the next command again, and every Reader thread
   returns, also the one that is blocked sending on a full data channel when
   the Writer aborts. *)
C18_OperationsEnd ==
    /\ (svPc # "recv") ~> (svPc = "recv")
    /\ \A o \in Ops : (rd[o].pc \in {"top", "send"}) ~> (rd[o].pc = "done")

\* the Writer aborted on a write error while the Reader is blocked sending
\* on the full data channel
C18_Witness ==
    /\ Returning
    /\ pend = <<IoError(curOp, "write_err")>>
    /\ Len(dataq) = CHANNEL_DEPTH
    /\ rd[curOp].pc = "send"

\* a Cancel command is waiting: in the command queue, or in the hands of a
\* caller blocked in cancel()
CancelWaiting ==
    \/ \E i \in 1..Len(cmdq) : cmdq[i] = CancelCmd
    \/ callerCmd = <<CancelCmd>>

(* C19: a Cancel enqueued while an operation runs stays undelivered until
   that operation has sent its terminal event: after a cancel() call during
   the copy a Cancel is waiting for as long as run_burn runs, the flag is
   false throughout run_burn and true only while no event, no sent event of
   a running operation and no queued chunk exists, and no Cancelled event is
   sent. *)
C19_CancelWaitsForTerminal ==
    /\ cancelInCopy => (svPc # "recv" /\ CancelWaiting)
    /\ svPc # "recv" => ~cancel_flag
    /\ \A i \in 1..Len(AllEvents) : AllEvents[i].kind # "Cancelled"
    /\ cancel_flag => (pend = <<>> /\ log = <<>> /\ dataq = <<>>)

\* cancel() was called during the copy and the operation is ending with
\* Finished while the Cancel is still in the queue
C19_Witness ==
    /\ cancelInCopy
    /\ Returning
    /\ pend = <<Finished(curOp)>>
    /\ cmdq # <<>>
    /\ Head(cmdq) = CancelCmd
    /\ ~cancel_flag

(* C20: whenever an operation sends Finished, every byte of the source has
   been written to the destination: the Writer's written count equals
   total_size, on every path to Finished. *)
C20_FinishedMeansAllWritten ==
    pend = <<Finished(curOp)>> => written = total_size

====
